---- MODULE Spec2Model ----
(***************************************************************************)
(* Filter-to-query compiler, result aggregator and metadata summarizer of  *)
(* the graph API (CypherQueryBuilder / GraphService).                      *)
(***************************************************************************)
EXTENDS Integers, Sequences, FiniteSets, TLC

VARIABLES
    pc,          \* position of GraphService._process_results / _calculate_metadata
    rowCount,    \* records consumed from the result iterator so far
    connCount,   \* connected nodes consumed from the current record
    relCount,    \* relationships consumed from the current record
    nodes,       \* nodes = []      (list of node_data dicts)
    edges,       \* edges = []      (list of edge_data dicts)
    node_ids,    \* node_ids = set()  (engine ids already emitted)
    edge_ids,    \* edge_ids = set()
    firstNodes,  \* history: node snapshots met with an engine id not met before
    firstEdges,  \* history: relationship snapshots met with an engine id not met before
    metadata,    \* result of _calculate_metadata, [k |-> "none"] before it ran
    filters,     \* GraphQuery.filters: [present, f] with f the GraphFilters fields
    limit,       \* GraphQuery.limit: Null (None) or Num(i)
    graph,       \* contents of the graph database: [nodes, rels]
    coerce,      \* engine behaviour: list predicates wrap a scalar into a one-element list
    query,       \* (base_query, parameters) returned by build_graph_query
    rows,        \* records returned by session.run
    route,       \* the route serving the request: "bulk" (POST /graph/data) or "detail"
    body,        \* request body of the bulk route as sent: [limit, offset, extra]
    node_id,     \* path parameter of the detail route, a sequence of characters
    offset,      \* GraphQuery.offset after validation
    session,     \* the session of `with neo4j_conn.get_session()`: "none", "open", "closed"
    fault,       \* engine behaviour: "none", "unavailable" (connection/timeout), "error"
    raised,      \* exception in flight or caught, [k |-> "none"] when there is none
    result,      \* value returned by the service method, [k |-> "unset"] before it returns
    response,    \* HTTP response of the route, [k |-> "none"] before it is sent
    previous,    \* query returned by an earlier build_graph_query call on the same input
    runs,        \* number of session.run calls issued by the operation
    summary,     \* the summary dict of get_graph_summary
    calls        \* two invocations of get_graph_data in progress, each with its own locals

aggVars == <<rowCount, connCount, relCount, nodes, edges, node_ids, edge_ids,
             firstNodes, firstEdges, metadata>>

queryVars == <<filters, limit, graph, coerce, query, rows>>

routeVars == <<route, body, node_id, offset, session, fault, raised, result, response, previous>>

\* state of the summary route and of the pair of concurrent invocations
otherVars == <<summary, calls>>

vars == <<pc, rowCount, connCount, relCount, nodes, edges, node_ids, edge_ids,
          firstNodes, firstEdges, metadata,
          filters, limit, graph, coerce, query, rows,
          route, body, node_id, offset, session, fault, raised, result, response, previous,
          runs, summary, calls>>

----------------------------------------------------------------------------
(* Bounds of the aggregator model *)
MaxNodeId == 2
MaxRelId == 2
MaxRows == 2
MaxConn == 1
MaxRels == 1

(* Bounds of the query models: populated filter fields, stored properties *)
MaxPopulated == 2
MaxQueryPopulated == 2
MaxProps == 2

----------------------------------------------------------------------------
(* Property values: a Cypher/Python value is null, a string, a list of     *)
(* strings or a number.                                                    *)
Null == [k |-> "null", s |-> <<>>, n |-> 0]
Str(x) == [k |-> "str", s |-> <<x>>, n |-> 0]
List(xs) == [k |-> "list", s |-> xs, n |-> 0]
Num(i) == [k |-> "num", s |-> <<>>, n |-> i]

Digit == <<"0", "1", "2", "3", "4", "5", "6", "7", "8", "9">>

RECURSIVE ToStr(_)
\* str(i) of a non-negative engine id
ToStr(i) == IF i < 10 THEN Digit[i + 1] ELSE ToStr(i \div 10) \o Digit[(i % 10) + 1]

NoProps == [p \in {} |-> Null]

----------------------------------------------------------------------------
(* Inputs of the aggregator: node and relationship snapshots as the driver *)
(* reports them (engine id, labels / endpoints and type, stored properties)*)
LabelSeqs == {<<>>, <<"COMPANY">>}
NodePropMaps ==
    {NoProps, [p \in {"name"} |-> Str("A")], [p \in {"id"} |-> Str("1")]}
NodeSnaps == [id : 1..MaxNodeId, labels : LabelSeqs, props : NodePropMaps]

\* relationship type with the properties stored on it
RelKinds ==
    {[type |-> "RATES", props |-> NoProps],
     [type |-> "RATES", props |-> [p \in {"rating_change"} |-> Str("Upgrade")]],
     [type |-> "RATES", props |-> [p \in {"mandate_status"} |-> Str("Active")]],
     [type |-> "OWNS", props |-> [p \in {"mandate_status"} |-> Str("Active")]],
     [type |-> "OWNS", props |-> [p \in {"mandate_status"} |-> Str("At Risk")]]}
RelSnaps ==
    {[id |-> i, start |-> a, end |-> b, type |-> kind.type, props |-> kind.props] :
        i \in 1..MaxRelId, a \in 1..MaxNodeId, b \in 1..MaxNodeId, kind \in RelKinds}

----------------------------------------------------------------------------
(* GraphFilters / GraphQuery: a field is None, a list of strings or a      *)
(* mapping from keys to numbers.                                           *)
NoMap == [x \in {} |-> 0]
FNone == [k |-> "none", s |-> <<>>, m |-> NoMap]
FList(xs) == [k |-> "list", s |-> xs, m |-> NoMap]
FMap(m) == [k |-> "map", s |-> <<>>, m |-> m]

\* Python truth value of an Optional[List] / Optional[Dict] field
Truthy(v) == (v.k = "list" /\ Len(v.s) > 0) \/ (v.k = "map" /\ DOMAIN v.m # {})

\* d.get(key, default)
Get(m, key, default) == IF key \in DOMAIN m THEN m[key] ELSE default

\* node filters in the order build_graph_query tests them
NodeFieldOrder ==
    <<"node_types", "regions", "market", "channels", "asset_classes", "mandate_status",
      "privacy_levels", "level_of_influence", "pca", "aca", "field_consultant", "product",
      "client_companies", "consultant_companies", "client_advisors", "consultant_advisors">>

RangeFields == {"consultant_product_ratings", "rating_range", "rank_order_range"}

NodeFields == {NodeFieldOrder[i] : i \in 1..Len(NodeFieldOrder)}

Fields == NodeFields \cup RangeFields \cup {"rating_change", "rank_group"}

AllNone == [fld \in Fields |-> FNone]

\* query.filters is None
NoFilters == [present |-> FALSE, f |-> AllNone]

----------------------------------------------------------------------------
(* CypherQueryBuilder.build_graph_query *)

Tok(t, op, var, prop, param) == [t |-> t, op |-> op, var |-> var, prop |-> prop, param |-> param]
LP == Tok("(", "", "", "", "")
RP == Tok(")", "", "", "", "")
AND == Tok("AND", "", "", "", "")
OR == Tok("OR", "", "", "", "")
\* var.prop IN $param
In(var, prop, param) == Tok("atom", "IN", var, prop, param)
\* any(x IN var.prop WHERE x IN $param)
AnyIn(var, prop, param) == Tok("atom", "ANY_IN", var, prop, param)
\* any(label IN labels(n) WHERE label IN $param)
LabelsAny(param) == Tok("atom", "LABELS_ANY", "n", "", param)
\* var.prop >= $param, var.prop <= $param
Ge(var, prop, param) == Tok("atom", "GE", var, prop, param)
Le(var, prop, param) == Tok("atom", "LE", var, prop, param)

\* variant: the bare-value test only
RegionFragmentScalarOnly == <<In("n", "region", "regions")>>

RegionFragment ==
    <<LP, In("n", "region", "regions"), OR, AnyIn("n", "sales_region", "regions"), OR,
      AnyIn("n", "region", "regions"), RP>>

\* variant: the collection test copied from the region filter
ChannelFragmentSalesRegion ==
    <<LP, In("n", "channel", "channels"), OR, AnyIn("n", "sales_region", "channels"), RP>>

ChannelFragment ==
    <<LP, In("n", "channel", "channels"), OR, AnyIn("n", "channel", "channels"), RP>>

\* n.name IN $p OR n.id IN $p
NameOrIdFragment(param) == <<In("n", "name", param), OR, In("n", "id", param)>>

ProductFragment ==
    <<In("n", "name", "product"), OR, In("n", "id", "product"), OR,
      In("n", "product_id", "product")>>

\* the text appended to where_conditions for a populated node filter
NodeFragment(fld) ==
    CASE fld = "node_types" -> <<LabelsAny("node_types")>>
      [] fld = "regions" -> RegionFragment
      [] fld = "market" -> <<In("n", "market", "market")>>
      [] fld = "channels" -> ChannelFragment
      [] fld = "asset_classes" -> <<In("n", "asset_class", "asset_classes")>>
      [] fld = "mandate_status" -> <<In("n", "mandate_status", "mandate_status")>>
      [] fld = "privacy_levels" -> <<In("n", "privacy", "privacy_levels")>>
      [] fld = "level_of_influence" -> <<In("n", "level_of_influence", "level_of_influence")>>
      [] fld = "pca" -> <<In("n", "pca", "pca")>>
      [] fld = "aca" -> <<In("n", "aca", "aca")>>
      [] fld = "field_consultant" -> NameOrIdFragment("field_consultant")
      [] fld = "product" -> ProductFragment
      [] fld = "client_companies" -> NameOrIdFragment("client_companies")
      [] fld = "consultant_companies" -> NameOrIdFragment("consultant_companies")
      [] fld = "client_advisors" -> <<In("n", "client_advisor", "client_advisors")>>
      [] fld = "consultant_advisors" -> <<In("n", "consultant_advisor", "consultant_advisors")>>

\* NodeType(str, Enum): nt.value
NodeTypeValue(nt) ==
    CASE nt = "CONSULTANT" -> "CONSULTANT"
      [] nt = "FIELD_CONSULTANT" -> "FIELD_CONSULTANT"
      [] nt = "COMPANY" -> "COMPANY"
      [] nt = "PRODUCT" -> "PRODUCT"

\* the value bound for a populated node filter
NodeParam(fld, v) ==
    IF fld = "node_types" THEN List([i \in 1..Len(v.s) |-> NodeTypeValue(v.s[i])])
    ELSE List(v.s)

\* variant: `is not None` in place of the truth test
NodeFilterSetNotNone(flt, fld) == flt.present /\ flt.f[fld].k # "none"

\* if query.filters.<field>: ... for one node field
NodeFilterSet(flt, fld) == flt.present /\ Truthy(flt.f[fld])

RECURSIVE NodeConditions(_, _)
\* where_conditions after the `if query.filters:` block, from field i on
NodeConditions(flt, i) ==
    IF i > Len(NodeFieldOrder) THEN <<>>
    ELSE (IF NodeFilterSet(flt, NodeFieldOrder[i])
          THEN <<NodeFragment(NodeFieldOrder[i])>> ELSE <<>>)
         \o NodeConditions(flt, i + 1)

RangeFragment(prop, lo, hi) == <<Ge("r", prop, lo), AND, Le("r", prop, hi)>>

\* if query.filters and query.filters.consultant_product_ratings: if 'min' in ratings or 'max' in ratings
RatingsSet(flt) ==
    /\ flt.present
    /\ Truthy(flt.f["consultant_product_ratings"])
    /\ ("min" \in DOMAIN flt.f["consultant_product_ratings"].m
        \/ "max" \in DOMAIN flt.f["consultant_product_ratings"].m)

\* variant: `is not None` in place of the truth test
RelFilterSetNotNone(flt, fld) ==
    IF fld = "consultant_product_ratings" THEN RatingsSet(flt)
    ELSE flt.present /\ flt.f[fld].k # "none"

\* if query.filters and query.filters.<field>: ... for one relationship field
RelFilterSet(flt, fld) ==
    IF fld = "consultant_product_ratings" THEN RatingsSet(flt)
    ELSE flt.present /\ Truthy(flt.f[fld])

\* relationship_filters, in the order the code appends them
RelationshipFilters(flt) ==
    (IF RelFilterSet(flt, "consultant_product_ratings")
     THEN <<RangeFragment("rankvalue", "min_rating", "max_rating")>> ELSE <<>>)
    \o (IF RelFilterSet(flt, "rating_range")
        THEN <<RangeFragment("rankvalue", "rating_min", "rating_max")>> ELSE <<>>)
    \o (IF RelFilterSet(flt, "rating_change")
        THEN <<<<In("r", "rating_change", "rating_change")>>>> ELSE <<>>)
    \o (IF RelFilterSet(flt, "rank_group")
        THEN <<<<In("r", "rankgroup", "rank_group")>>>> ELSE <<>>)
    \o (IF RelFilterSet(flt, "rank_order_range")
        THEN <<RangeFragment("rankorder", "rank_min", "rank_max")>> ELSE <<>>)

\* variant: the ratings parameters bound outside the `if 'min' in ratings or 'max' in ratings`
RelParamNamesRatingsAlways(flt) ==
    (IF flt.present /\ Truthy(flt.f["consultant_product_ratings"])
     THEN {"min_rating", "max_rating"} ELSE {})
    \cup (IF RelFilterSet(flt, "rating_range") THEN {"rating_min", "rating_max"} ELSE {})
    \cup (IF RelFilterSet(flt, "rating_change") THEN {"rating_change"} ELSE {})
    \cup (IF RelFilterSet(flt, "rank_group") THEN {"rank_group"} ELSE {})
    \cup (IF RelFilterSet(flt, "rank_order_range") THEN {"rank_min", "rank_max"} ELSE {})

\* parameters bound by the relationship filters
RelParamNames(flt) ==
    (IF RelFilterSet(flt, "consultant_product_ratings") THEN {"min_rating", "max_rating"} ELSE {})
    \cup (IF RelFilterSet(flt, "rating_range") THEN {"rating_min", "rating_max"} ELSE {})
    \cup (IF RelFilterSet(flt, "rating_change") THEN {"rating_change"} ELSE {})
    \cup (IF RelFilterSet(flt, "rank_group") THEN {"rank_group"} ELSE {})
    \cup (IF RelFilterSet(flt, "rank_order_range") THEN {"rank_min", "rank_max"} ELSE {})

\* variant: the rating defaults 0 / 10 used for the rank-order range as well
RelParamRatingDefaults(flt, name) ==
    CASE name = "min_rating" -> Num(Get(flt.f["consultant_product_ratings"].m, "min", 0))
      [] name = "max_rating" -> Num(Get(flt.f["consultant_product_ratings"].m, "max", 10))
      [] name = "rating_min" -> Num(Get(flt.f["rating_range"].m, "min", 0))
      [] name = "rating_max" -> Num(Get(flt.f["rating_range"].m, "max", 10))
      [] name = "rating_change" -> List(flt.f["rating_change"].s)
      [] name = "rank_group" -> List(flt.f["rank_group"].s)
      [] name = "rank_min" -> Num(Get(flt.f["rank_order_range"].m, "min", 0))
      [] name = "rank_max" -> Num(Get(flt.f["rank_order_range"].m, "max", 10))

\* parameters[...] = <range>.get('min', floor) / .get('max', ceiling), or the list given
RelParam(flt, name) ==
    CASE name = "min_rating" -> Num(Get(flt.f["consultant_product_ratings"].m, "min", 0))
      [] name = "max_rating" -> Num(Get(flt.f["consultant_product_ratings"].m, "max", 10))
      [] name = "rating_min" -> Num(Get(flt.f["rating_range"].m, "min", 0))
      [] name = "rating_max" -> Num(Get(flt.f["rating_range"].m, "max", 10))
      [] name = "rating_change" -> List(flt.f["rating_change"].s)
      [] name = "rank_group" -> List(flt.f["rank_group"].s)
      [] name = "rank_min" -> Num(Get(flt.f["rank_order_range"].m, "min", 1))
      [] name = "rank_max" -> Num(Get(flt.f["rank_order_range"].m, "max", 100))

DefaultLimit == 1000

\* parameters['limit'] = query.limit or 1000
LimitParam(lim) == IF lim.k = "num" /\ lim.n # 0 THEN lim ELSE Num(DefaultLimit)

\* the parameters dict
Parameters(flt, lim) ==
    LET nodeNames == {fld \in NodeFields : NodeFilterSet(flt, fld)}
    IN [name \in nodeNames \cup RelParamNames(flt) \cup {"limit"} |->
           IF name = "limit" THEN LimitParam(lim)
           ELSE IF name \in RelParamNames(flt) THEN RelParam(flt, name)
           ELSE NodeParam(name, flt.f[name])]

RECURSIVE JoinAnd(_, _)
\* ' AND '.join(where_conditions), from condition i on
JoinAnd(conds, i) ==
    IF i > Len(conds) THEN <<>>
    ELSE IF i = Len(conds) THEN conds[i]
    ELSE conds[i] \o <<AND>> \o JoinAnd(conds, i + 1)

\* if relationship_filters: base_query = "MATCH (n)-[r]-(m)"
QueryShape(flt) == IF RelationshipFilters(flt) # <<>> THEN "relationship" ELSE "node_only"

\* variant: where_conditions kept on the builder across calls
WhereConditionsKeptAcrossCalls(flt) ==
    (IF query.k = "query" THEN query.where_conditions ELSE <<>>)
    \o NodeConditions(flt, 1) \o RelationshipFilters(flt)

\* where_conditions, extended by relationship_filters when there are any
WhereConditions(flt) == NodeConditions(flt, 1) \o RelationshipFilters(flt)

\* the query text as its clauses, and the parameters
BuildGraphQueryOf(flt, lim) ==
    [k |-> "query",
     shape |-> QueryShape(flt),
     where_conditions |-> WhereConditions(flt),
     has_where |-> WhereConditions(flt) # <<>>,
     where |-> JoinAnd(WhereConditions(flt), 1),
     parameters |-> Parameters(flt, lim)]

\* RETURN n, collect(DISTINCT r) ..., collect(DISTINCT m) ... LIMIT $limit
ReturnClauseParams == {"limit"}

NoQuery == [k |-> "none"]
EmptyGraph == [nodes |-> {}, rels |-> {}]

\* an exception of the given class
Exc(class) == [k |-> "exc", class |-> class, status |-> 0]
\* HTTPException(status_code=status)
HTTPException(status) == [k |-> "exc", class |-> "HTTPException", status |-> status]
NoExc == [k |-> "none", class |-> "", status |-> 0]

NoResult == [k |-> "unset"]
NoResponse == [k |-> "none", status |-> 0, data |-> NoResult]

\* GraphQuery(): limit = 1000, offset = 0 when the body names neither
DefaultBody == [limit |-> [k |-> "absent", n |-> 0], offset |-> [k |-> "absent", n |-> 0],
                extra |-> {}]

\* summary = {"node_counts": {}, "relationship_counts": {}, "total_nodes": 0, "total_relationships": 0}
NoSummary ==
    [node_counts |-> [t \in {} |-> 0], relationship_counts |-> [t \in {} |-> 0],
     total_nodes |-> 0, total_relationships |-> 0]

\* no pair of invocations in progress
NoCalls == <<>>

\* inside get_graph_data, the session entered, nothing raised or returned yet
InService ==
    /\ route = "bulk"
    /\ body = DefaultBody
    /\ node_id = <<>>
    /\ offset = Num(0)
    /\ session = "open"
    /\ fault = "none"
    /\ raised = NoExc
    /\ result = NoResult
    /\ response = NoResponse
    /\ previous = NoQuery
    /\ runs = 0
    /\ summary = NoSummary
    /\ calls = NoCalls

----------------------------------------------------------------------------
(* GraphService._process_results *)

\* list(labels)[0] if labels else 'Unknown'
NodeType(labels) == IF Len(labels) > 0 THEN labels[1] ELSE "Unknown"

\* {'id': str(id), 'labels': ..., 'type': ..., **dict(node)}: a later key of
\* the dict display replaces an earlier one
NodeData(n) ==
    [key \in {"id", "labels", "type"} \cup DOMAIN n.props |->
        IF key \in DOMAIN n.props THEN n.props[key]
        ELSE IF key = "id" THEN Str(ToStr(n.id))
        ELSE IF key = "labels" THEN List(n.labels)
        ELSE Str(NodeType(n.labels))]

\* {'id': str(id), 'source': ..., 'target': ..., 'type': ..., **dict(rel)}
EdgeData(r) ==
    [key \in {"id", "source", "target", "type"} \cup DOMAIN r.props |->
        IF key \in DOMAIN r.props THEN r.props[key]
        ELSE IF key = "id" THEN Str(ToStr(r.id))
        ELSE IF key = "source" THEN Str(ToStr(r.start))
        ELSE IF key = "target" THEN Str(ToStr(r.end))
        ELSE Str(r.type)]

\* truth value of a driver Node / Relationship in `if node and ...`: the
\* entity is a Mapping over its stored properties, false when it holds none
EntityTruthy(e) == DOMAIN e.props # {}

\* if node and node.id not in node_ids: nodes.append(node_data); node_ids.add(node.id)
AddNode(acc, n) ==
    IF EntityTruthy(n) /\ n.id \notin acc.node_ids
    THEN [acc EXCEPT !.nodes = Append(@, NodeData(n)), !.node_ids = @ \cup {n.id}]
    ELSE acc

\* if rel and rel.id not in edge_ids: edges.append(edge_data); edge_ids.add(rel.id)
AddEdge(acc, r) ==
    IF EntityTruthy(r) /\ r.id \notin acc.edge_ids
    THEN [acc EXCEPT !.edges = Append(@, EdgeData(r)), !.edge_ids = @ \cup {r.id}]
    ELSE acc

Acc == [nodes |-> nodes, edges |-> edges, node_ids |-> node_ids, edge_ids |-> edge_ids]

SetAcc(acc) ==
    /\ nodes' = acc.nodes
    /\ edges' = acc.edges
    /\ node_ids' = acc.node_ids
    /\ edge_ids' = acc.edge_ids

\* history of first encounters, kept independently of node_ids / edge_ids
NoteFirst(hist, snap) ==
    IF \E i \in 1..Len(hist) : hist[i].id = snap.id THEN hist ELSE Append(hist, snap)

\* nodes = []; edges = []; node_ids = set(); edge_ids = set()
AggIdle ==
    /\ rowCount = 0
    /\ connCount = 0
    /\ relCount = 0
    /\ nodes = <<>>
    /\ edges = <<>>
    /\ node_ids = {}
    /\ edge_ids = {}
    /\ firstNodes = <<>>
    /\ firstEdges = <<>>
    /\ metadata = [k |-> "none"]

InitAgg ==
    /\ pc = "loop"
    /\ AggIdle
    /\ filters = NoFilters
    /\ limit = Null
    /\ graph = EmptyGraph
    /\ coerce = TRUE
    /\ query = NoQuery
    /\ rows = {}
    /\ InService

\* for record in result: main_node = record['n'] ...
ProcessMainNode ==
    /\ pc = "loop"
    /\ rowCount < MaxRows
    /\ \E n \in NodeSnaps :
        /\ SetAcc(AddNode(Acc, n))
        /\ firstNodes' = NoteFirst(firstNodes, n)
    /\ rowCount' = rowCount + 1
    /\ connCount' = 0
    /\ relCount' = 0
    /\ pc' = "connected"
    /\ UNCHANGED <<runs, otherVars, firstEdges, metadata, queryVars, routeVars>>

\* for connected_node in connected_nodes: ...
ProcessConnectedNode ==
    /\ pc = "connected"
    /\ connCount < MaxConn
    /\ \E n \in NodeSnaps :
        /\ SetAcc(AddNode(Acc, n))
        /\ firstNodes' = NoteFirst(firstNodes, n)
    /\ connCount' = connCount + 1
    /\ UNCHANGED <<runs, otherVars, pc, rowCount, relCount, firstEdges, metadata, queryVars, routeVars>>

\* connected_nodes exhausted: relationships = record.get('relationships', [])
EndConnectedNodes ==
    /\ pc = "connected"
    /\ pc' = "relationships"
    /\ UNCHANGED <<runs, otherVars, rowCount, connCount, relCount, nodes, edges, node_ids, edge_ids,
                   firstNodes, firstEdges, metadata, queryVars, routeVars>>

\* for rel in relationships: ...
ProcessRelationship ==
    /\ pc = "relationships"
    /\ relCount < MaxRels
    /\ \E r \in RelSnaps :
        /\ SetAcc(AddEdge(Acc, r))
        /\ firstEdges' = NoteFirst(firstEdges, r)
    /\ relCount' = relCount + 1
    /\ UNCHANGED <<runs, otherVars, pc, rowCount, connCount, firstNodes, metadata, queryVars, routeVars>>

\* relationships exhausted: next record
EndRelationships ==
    /\ pc = "relationships"
    /\ pc' = "loop"
    /\ UNCHANGED <<runs, otherVars, rowCount, connCount, relCount, nodes, edges, node_ids, edge_ids,
                   firstNodes, firstEdges, metadata, queryVars, routeVars>>

\* result exhausted: return nodes, edges
ReturnResults ==
    /\ pc = "loop"
    /\ pc' = "processed"
    /\ UNCHANGED <<runs, otherVars, rowCount, connCount, relCount, nodes, edges, node_ids, edge_ids,
                   firstNodes, firstEdges, metadata, queryVars, routeVars>>

----------------------------------------------------------------------------
(* GraphService._calculate_metadata *)

RECURSIVE CountTypesNoAccumulate(_, _, _)
\* variant: counts[t] = 1 in place of counts.get(t, 0) + 1
CountTypesNoAccumulate(items, i, counts) ==
    IF i > Len(items) THEN counts
    ELSE LET t == IF "type" \in DOMAIN items[i] THEN items[i]["type"] ELSE Str("Unknown")
         IN CountTypesNoAccumulate(items, i + 1,
                [k \in DOMAIN counts \cup {t} |-> IF k = t THEN 1 ELSE counts[k]])

RECURSIVE CountTypes(_, _, _)
\* for item in items: t = item.get('type', 'Unknown'); counts[t] = counts.get(t, 0) + 1
CountTypes(items, i, counts) ==
    IF i > Len(items) THEN counts
    ELSE LET t == IF "type" \in DOMAIN items[i] THEN items[i]["type"] ELSE Str("Unknown")
             old == IF t \in DOMAIN counts THEN counts[t] ELSE 0
         IN CountTypes(items, i + 1,
                [k \in DOMAIN counts \cup {t} |-> IF k = t THEN old + 1 ELSE counts[k]])

RECURSIVE CountMandateStatusAnyType(_, _, _)
\* variant: the test on the edge type left out
CountMandateStatusAnyType(items, i, counts) ==
    IF i > Len(items) THEN counts
    ELSE IF "mandate_status" \in DOMAIN items[i]
         THEN LET t == items[i]["mandate_status"]
                  old == IF t \in DOMAIN counts THEN counts[t] ELSE 0
              IN CountMandateStatusAnyType(items, i + 1,
                     [k \in DOMAIN counts \cup {t} |-> IF k = t THEN old + 1 ELSE counts[k]])
         ELSE CountMandateStatusAnyType(items, i + 1, counts)

RECURSIVE CountMandateStatus(_, _, _)
\* if edge.get('type') == 'OWNS' and 'mandate_status' in edge: counts[status] += 1
CountMandateStatus(items, i, counts) ==
    IF i > Len(items) THEN counts
    ELSE IF /\ "type" \in DOMAIN items[i]
            /\ items[i]["type"] = Str("OWNS")
            /\ "mandate_status" \in DOMAIN items[i]
         THEN LET t == items[i]["mandate_status"]
                  old == IF t \in DOMAIN counts THEN counts[t] ELSE 0
              IN CountMandateStatus(items, i + 1,
                     [k \in DOMAIN counts \cup {t} |-> IF k = t THEN old + 1 ELSE counts[k]])
         ELSE CountMandateStatus(items, i + 1, counts)

NoCounts == [t \in {} |-> 0]

CalculateMetadataOf(ns, es) ==
    [k |-> "meta",
     total_nodes |-> Len(ns),
     total_edges |-> Len(es),
     node_type_counts |-> CountTypes(ns, 1, NoCounts),
     edge_type_counts |-> CountTypes(es, 1, NoCounts),
     mandate_status_counts |-> CountMandateStatus(es, 1, NoCounts)]

\* metadata = self._calculate_metadata(nodes, edges, query)
CalculateMetadata ==
    /\ pc = "processed"
    /\ metadata' = CalculateMetadataOf(nodes, edges)
    /\ pc' = "done"
    /\ UNCHANGED <<runs, otherVars, rowCount, connCount, relCount, nodes, edges, node_ids, edge_ids,
                   firstNodes, firstEdges, queryVars, routeVars>>

NextAgg ==
    \/ ProcessMainNode
    \/ ProcessConnectedNode
    \/ EndConnectedNodes
    \/ ProcessRelationship
    \/ EndRelationships
    \/ ReturnResults
    \/ CalculateMetadata

SpecAgg == InitAgg /\ [][NextAgg]_vars

----------------------------------------------------------------------------
(* Meaning of the emitted query on the graph engine.  A predicate is true  *)
(* ("T"), false ("F"), null ("N") or raises a type error ("E").            *)

NoRel == [id |-> 0, start |-> 0, end |-> 0, type |-> "", props |-> NoProps]

\* var.prop: a missing property and any property of a null r are null
PropOf(tok, n, r) ==
    LET e == IF tok.var = "n" THEN n ELSE r
    IN IF tok.prop \in DOMAIN e.props THEN e.props[tok.prop] ELSE Null

Elems(xs) == {xs[i] : i \in 1..Len(xs)}

\* one comparison / list predicate of the WHERE text
EvalAtom(tok, n, r, params, wraps) ==
    LET v == PropOf(tok, n, r)
        p == params[tok.param]
    IN CASE tok.op = "LABELS_ANY" ->
                IF Elems(n.labels) \cap Elems(p.s) # {} THEN "T" ELSE "F"
         [] tok.op = "IN" ->
                IF v.k = "null" THEN "N"
                ELSE IF v.k = "str" /\ v.s[1] \in Elems(p.s) THEN "T" ELSE "F"
         [] tok.op = "ANY_IN" ->
                IF v.k = "null" THEN "N"
                ELSE IF v.k = "list" THEN (IF Elems(v.s) \cap Elems(p.s) # {} THEN "T" ELSE "F")
                ELSE IF ~wraps THEN "E"
                ELSE IF v.k = "str" /\ v.s[1] \in Elems(p.s) THEN "T" ELSE "F"
         [] tok.op = "GE" ->
                IF v.k = "num" THEN (IF v.n >= p.n THEN "T" ELSE "F") ELSE "N"
         [] tok.op = "LE" ->
                IF v.k = "num" THEN (IF v.n <= p.n THEN "T" ELSE "F") ELSE "N"

\* a OR b: true decides, an error is raised unless true decides, then null
Or4(a, b) ==
    IF a = "T" \/ b = "T" THEN "T"
    ELSE IF a = "E" \/ b = "E" THEN "E"
    ELSE IF a = "N" \/ b = "N" THEN "N"
    ELSE "F"

\* a AND b: false decides, an error is raised unless false decides, then null
And4(a, b) ==
    IF a = "F" \/ b = "F" THEN "F"
    ELSE IF a = "E" \/ b = "E" THEN "E"
    ELSE IF a = "N" \/ b = "N" THEN "N"
    ELSE "T"

RECURSIVE ParseOr(_, _, _, _, _, _)
RECURSIVE ParseAnd(_, _, _, _, _, _)
RECURSIVE ParseUnit(_, _, _, _, _, _)

\* unit := atom | "(" expr ")"
ParseUnit(toks, i, n, r, params, wraps) ==
    IF toks[i].t = "("
    THEN LET inner == ParseOr(toks, i + 1, n, r, params, wraps)
         IN [v |-> inner.v, i |-> inner.i + 1]
    ELSE [v |-> EvalAtom(toks[i], n, r, params, wraps), i |-> i + 1]

\* AND binds tighter than OR
ParseAnd(toks, i, n, r, params, wraps) ==
    LET u == ParseUnit(toks, i, n, r, params, wraps)
    IN IF u.i <= Len(toks) /\ toks[u.i].t = "AND"
       THEN LET rest == ParseAnd(toks, u.i + 1, n, r, params, wraps)
            IN [v |-> And4(u.v, rest.v), i |-> rest.i]
       ELSE u

ParseOr(toks, i, n, r, params, wraps) ==
    LET a == ParseAnd(toks, i, n, r, params, wraps)
    IN IF a.i <= Len(toks) /\ toks[a.i].t = "OR"
       THEN LET rest == ParseOr(toks, a.i + 1, n, r, params, wraps)
            IN [v |-> Or4(a.v, rest.v), i |-> rest.i]
       ELSE a

\* value of a boolean expression text for the binding (n, r)
EvalExpr(toks, n, r, params, wraps) == ParseOr(toks, 1, n, r, params, wraps).v

\* value of the WHERE clause of q; a query without WHERE keeps every binding
EvalWhere(q, n, r, wraps) ==
    IF q.has_where THEN EvalExpr(q.where, n, r, q.parameters, wraps) ELSE "T"

\* (n)-[r]-(m): the relationships incident to n, in either direction
Incident(g, n) == {r \in g.rels : r.start = n.id \/ r.end = n.id}

OtherEnd(g, n, r) ==
    CHOOSE m \in g.nodes : m.id = (IF r.start = n.id THEN r.end ELSE r.start)

\* the query raises when the WHERE clause raises on a binding it is tested on
QueryRaises(q, g, wraps) ==
    \E n \in g.nodes :
        \/ \E r \in Incident(g, n) : EvalWhere(q, n, r, wraps) = "E"
        \/ Incident(g, n) = {} /\ EvalWhere(q, n, NoRel, wraps) = "E"

\* variant: every relationship of a matched n collected, not only the bindings kept
RowOfEveryIncident(q, g, n, wraps) ==
    LET kept == {r \in Incident(g, n) : EvalWhere(q, n, r, wraps) = "T"}
        all == IF kept = {} THEN {} ELSE Incident(g, n)
    IN [n |-> n, relationships |-> all,
        connected_nodes |-> {OtherEnd(g, n, r) : r \in all}]

\* RETURN n, collect(DISTINCT r), collect(DISTINCT m) for one n
RowOf(q, g, n, wraps) ==
    LET kept == {r \in Incident(g, n) : EvalWhere(q, n, r, wraps) = "T"}
    IN [n |-> n, relationships |-> kept,
        connected_nodes |-> {OtherEnd(g, n, r) : r \in kept}]

\* MATCH (n) OPTIONAL MATCH (n)-[r]-(m) WHERE ...: the WHERE belongs to the
\* OPTIONAL MATCH, every n yields a row.  MATCH (n)-[r]-(m) WHERE ...: only
\* an n with a binding that passes the WHERE yields a row.
MatchRows(q, g, wraps) ==
    IF q.shape = "node_only"
    THEN {RowOf(q, g, n, wraps) : n \in g.nodes}
    ELSE {RowOf(q, g, n, wraps) :
            n \in {x \in g.nodes : RowOf(q, g, x, wraps).relationships # {}}}

Min(a, b) == IF a < b THEN a ELSE b

\* variant: the call issued a second time after the first
EngineCallsRepeated(n) == n + 2

\* result = session.run(...): one call to the engine
EngineCalls(n) == n + 1

\* cypher_query, parameters = self.query_builder.build_graph_query(query)
BuildGraphQuery ==
    /\ pc = "start"
    /\ query' = BuildGraphQueryOf(filters, limit)
    /\ pc' = "built"
    /\ UNCHANGED <<runs, otherVars, aggVars, filters, limit, graph, coerce, rows, routeVars>>

\* result = session.run(cypher_query, parameters): LIMIT $limit keeps any
\* $limit of the matched rows
RunQuery ==
    /\ pc = "built"
    /\ fault = "none"
    /\ ~QueryRaises(query, graph, coerce)
    /\ LET matched == MatchRows(query, graph, coerce)
           keep == Min(query.parameters["limit"].n, Cardinality(matched))
       IN \E sub \in SUBSET matched :
            /\ Cardinality(sub) = keep
            /\ rows' = sub
    /\ runs' = EngineCalls(runs)
    /\ pc' = "ran"
    /\ UNCHANGED <<otherVars, aggVars, filters, limit, graph, coerce, query, routeVars>>

\* session.run raises: get_graph_data propagates the exception
RunQueryFails ==
    /\ pc = "built"
    /\ fault = "error" \/ (fault = "none" /\ QueryRaises(query, graph, coerce))
    /\ raised' = Exc("Neo4jError")
    /\ runs' = EngineCalls(runs)
    /\ pc' = "failed"
    /\ UNCHANGED <<otherVars, aggVars, queryVars, route, body, node_id, offset, session, fault, result,
                   response, previous>>

NextQuery ==
    \/ BuildGraphQuery
    \/ RunQuery
    \/ RunQueryFails

----------------------------------------------------------------------------
(* Inputs of the query builder *)

\* a requested value list for a list-valued filter field
SampleList(fld) ==
    CASE fld = "node_types" -> <<"COMPANY">>
      [] fld \in {"regions", "channels"} -> <<"EMEA">>
      [] fld \in {"field_consultant", "product", "client_companies", "consultant_companies"}
            -> <<"n1">>
      [] fld = "asset_classes" -> <<"Equity">>
      [] fld = "rating_change" -> <<"Upgrade">>
      [] OTHER -> <<"x">>

RangeMaps ==
    {NoMap, ("min" :> 2), ("max" :> 7), ("min" :> 2) @@ ("max" :> 7), ("other" :> 1)}

\* the values a field may be given besides None
FieldValues(fld) ==
    IF fld \in RangeFields THEN {FMap(m) : m \in RangeMaps}
    ELSE {FList(<<>>), FList(SampleList(fld))}

RECURSIVE FiltersUpTo(_, _)
\* GraphFilters objects with at most k of the given fields given a value
FiltersUpTo(flds, k) ==
    IF k = 0 THEN {AllNone}
    ELSE LET prev == FiltersUpTo(flds, k - 1)
         IN prev \cup UNION {{[f EXCEPT ![fld] = v] : v \in FieldValues(fld), f \in prev} :
                              fld \in flds}

Limits == {Null, Num(1), Num(2)}

SampleGraph ==
    [nodes |-> {[id |-> 1, labels |-> <<"COMPANY">>, props |-> [p \in {"region"} |-> Str("APAC")]],
                [id |-> 2, labels |-> <<"PRODUCT">>, props |-> NoProps]},
     rels |-> {[id |-> 1, start |-> 1, end |-> 2, type |-> "RATES", props |-> NoProps]}]

InitBuild ==
    /\ pc = "start"
    /\ AggIdle
    /\ filters \in {NoFilters} \cup {[present |-> TRUE, f |-> f] : f \in FiltersUpTo(Fields, MaxPopulated)}
    /\ limit \in Limits
    /\ graph = SampleGraph
    /\ coerce = FALSE
    /\ query = NoQuery
    /\ rows = {}
    /\ InService

\* build_graph_query called once more on the same GraphQuery
BuildGraphQueryAgain ==
    /\ pc = "built"
    /\ previous' = query
    /\ query' = BuildGraphQueryOf(filters, limit)
    /\ pc' = "rebuilt"
    /\ UNCHANGED <<runs, otherVars, aggVars, filters, limit, graph, coerce, rows, route, body, node_id,
                   offset, session, fault, raised, result, response>>

NextBuild ==
    \/ NextQuery
    \/ BuildGraphQueryAgain

SpecBuild == InitBuild /\ [][NextBuild]_vars

----------------------------------------------------------------------------
(* Inputs of the query semantics: one entity with stored properties, a     *)
(* plain neighbour and at most one relationship between them               *)

QueryFields ==
    {"node_types", "regions", "channels", "asset_classes", "field_consultant", "product",
     "client_companies", "consultant_companies", "rating_change", "rating_range"}

QueryFieldValues(fld) ==
    IF fld \in RangeFields THEN {FMap(("min" :> 2) @@ ("max" :> 7))}
    ELSE {FList(SampleList(fld))}

RECURSIVE QueryFiltersUpTo(_)
QueryFiltersUpTo(k) ==
    IF k = 0 THEN {AllNone}
    ELSE LET prev == QueryFiltersUpTo(k - 1)
         IN prev \cup UNION {{[f EXCEPT ![fld] = v] : v \in QueryFieldValues(fld), f \in prev} :
                              fld \in QueryFields}

EntityProps == {"name", "id", "product_id", "asset_class", "region", "sales_region", "channel"}

PropValues(p) ==
    IF p \in {"name", "id", "product_id"} THEN {Str("n1"), Str("n2")}
    ELSE IF p = "asset_class" THEN {Str("Equity"), Str("Bond")}
    ELSE {Str("EMEA"), Str("APAC"), List(<<"EMEA", "APAC">>), List(<<"APAC">>)}

RECURSIVE PropMapsUpTo(_)
\* property maps with at most k stored properties
PropMapsUpTo(k) ==
    IF k = 0 THEN {NoProps}
    ELSE LET prev == PropMapsUpTo(k - 1)
         IN prev \cup UNION {{[q \in DOMAIN m \cup {p} |-> IF q = p THEN v ELSE m[q]] :
                                v \in PropValues(p), m \in {x \in prev : p \notin DOMAIN x}} :
                              p \in EntityProps}

QueryRelProps ==
    {NoProps, [p \in {"rating_change"} |-> Str("Upgrade")],
     [p \in {"rating_change"} |-> Str("Downgrade")],
     [p \in {"rankvalue"} |-> Num(5)], [p \in {"rankvalue"} |-> Num(9)]}

Neighbour == [id |-> 2, labels |-> <<"PRODUCT">>, props |-> NoProps]

QueryGraphs ==
    LET ents == [id : {1}, labels : {<<"COMPANY">>, <<"PRODUCT">>}, props : PropMapsUpTo(MaxProps)]
        relsets == {{}} \cup {{[id |-> 1, start |-> 1, end |-> 2, type |-> "RATES", props |-> rp]} :
                                rp \in QueryRelProps}
    IN {[nodes |-> {e, Neighbour}, rels |-> rs] : e \in ents, rs \in relsets}

InitQuery ==
    /\ pc = "start"
    /\ AggIdle
    /\ filters \in {[present |-> TRUE, f |-> f] : f \in QueryFiltersUpTo(MaxQueryPopulated)}
    /\ limit = Null
    /\ graph \in QueryGraphs
    /\ coerce \in BOOLEAN
    /\ query = NoQuery
    /\ rows = {}
    /\ InService

SpecQuery == InitQuery /\ [][NextQuery]_vars

----------------------------------------------------------------------------
(* The routes POST /graph/data and GET /graph/node/{node_id} around the    *)
(* service methods: request validation, the session, the error handler.    *)

MaxLimit == 10000

\* a body value: not named, null, or an integer
Absent == [k |-> "absent", n |-> 0]
JsonNull == [k |-> "null", n |-> 0]
RawInt(i) == [k |-> "int", n |-> i]

\* variant: limit declared without ge / le
ValidLimitUnbounded(raw) == TRUE

\* limit: Optional[int] = Field(1000, ge=1, le=10000)
ValidLimit(raw) == raw.k = "int" => (raw.n >= 1 /\ raw.n <= MaxLimit)

\* offset: Optional[int] = Field(0, ge=0)
ValidOffset(raw) == raw.k = "int" => raw.n >= 0

\* the field of the validated GraphQuery: the default when not named, None for null
FieldOf(raw, default) ==
    IF raw.k = "absent" THEN Num(default) ELSE IF raw.k = "null" THEN Null ELSE Num(raw.n)

\* FastAPI answers a body that fails validation with 422 before the handler runs
Http(status, data) == [k |-> "http", status |-> status, data |-> data]

\* GraphQuery parsed from the body: a field name GraphFilters does not declare
\* is dropped (pydantic's default extra = 'ignore'), so `filters` is the object
ValidateRequest ==
    /\ pc = "request"
    /\ route = "bulk"
    /\ IF ValidLimit(body.limit) /\ ValidOffset(body.offset)
       THEN /\ limit' = FieldOf(body.limit, DefaultLimit)
            /\ offset' = FieldOf(body.offset, 0)
            /\ pc' = "route"
            /\ UNCHANGED response
       ELSE /\ response' = Http(422, NoResult)
            /\ pc' = "responded"
            /\ UNCHANGED <<limit, offset>>
    /\ UNCHANGED <<runs, otherVars, aggVars, filters, graph, coerce, query, rows, route, body, node_id,
                   session, fault, raised, result, previous>>

\* variant: the session closed by a trailing session.close() instead of `with`
SessionExitSkippedOnRaise(s, exceptional) == IF exceptional THEN s ELSE "closed"

\* __exit__ of `with neo4j_conn.get_session() as session`, on return and on raise
SessionExit(s, exceptional) == "closed"

\* get_graph_data: with neo4j_conn.get_session() as session
GetGraphDataEnter ==
    /\ pc = "route"
    /\ route = "bulk"
    /\ session' = "open"
    /\ pc' = "start"
    /\ UNCHANGED <<runs, otherVars, aggVars, queryVars, route, body, node_id, offset, fault, raised, result,
                   response, previous>>

\* session.run fails to reach the engine (ServiceUnavailable / SessionExpired)
RunQueryUnavailable ==
    /\ pc \in {"built", "detail_built"}
    /\ fault = "unavailable"
    /\ raised' = Exc("ServiceUnavailable")
    /\ runs' = EngineCalls(runs)
    /\ pc' = "failed"
    /\ UNCHANGED <<otherVars, aggVars, queryVars, route, body, node_id, offset, session, fault, result,
                   response, previous>>

SeqsOfSet(S) ==
    {sq \in [1..Cardinality(S) -> S] : \A i, j \in 1..Cardinality(S) : i # j => sq[i] # sq[j]}

\* one record as the driver delivers it, the two collections in some order
ListedRows(row) ==
    {[n |-> row.n, connected_nodes |-> c, relationships |-> l] :
        c \in SeqsOfSet(row.connected_nodes), l \in SeqsOfSet(row.relationships)}

RECURSIVE Deliveries(_)
\* the records of the result in the given order
Deliveries(rs) ==
    IF rs = <<>> THEN {<<>>}
    ELSE {<<r>> \o rest : r \in ListedRows(Head(rs)), rest \in Deliveries(Tail(rs))}

RECURSIVE FoldNodes(_, _, _)
FoldNodes(acc, ns, i) ==
    IF i > Len(ns) THEN acc ELSE FoldNodes(AddNode(acc, ns[i]), ns, i + 1)

RECURSIVE FoldEdges(_, _, _)
FoldEdges(acc, rs, i) ==
    IF i > Len(rs) THEN acc ELSE FoldEdges(AddEdge(acc, rs[i]), rs, i + 1)

RECURSIVE FoldRecords(_, _, _)
\* for record in result: main node, then connected nodes, then relationships
FoldRecords(acc, recs, i) ==
    IF i > Len(recs) THEN acc
    ELSE FoldRecords(
            FoldEdges(FoldNodes(AddNode(acc, recs[i].n), recs[i].connected_nodes, 1),
                      recs[i].relationships, 1),
            recs, i + 1)

\* nodes, edges = self._process_results(result)
ProcessResults ==
    /\ pc = "ran"
    /\ \E rs \in SeqsOfSet(rows) : \E recs \in Deliveries(rs) :
          SetAcc(FoldRecords(Acc, recs, 1))
    /\ pc' = "processed"
    /\ UNCHANGED <<runs, otherVars, rowCount, connCount, relCount, firstNodes, firstEdges, metadata,
                   queryVars, routeVars>>

\* return {"nodes": nodes, "edges": edges, "metadata": metadata}, leaving the with block
ReturnGraphData ==
    /\ pc = "done"
    /\ result' = [k |-> "graph", nodes |-> nodes, edges |-> edges, metadata |-> metadata]
    /\ session' = SessionExit(session, FALSE)
    /\ pc' = "returned"
    /\ UNCHANGED <<runs, otherVars, aggVars, queryVars, route, body, node_id, offset, fault, raised,
                   response, previous>>

\* an exception leaves the with block of the service method
ServiceRaises ==
    /\ pc = "failed"
    /\ session' = SessionExit(session, TRUE)
    /\ pc' = "raised"
    /\ UNCHANGED <<runs, otherVars, aggVars, queryVars, route, body, node_id, offset, fault, raised, result,
                   response, previous>>

\* return {"success": True, "data": result} of the bulk route
RouteReturns ==
    /\ pc = "returned"
    /\ route = "bulk"
    /\ response' = Http(200, result)
    /\ pc' = "responded"
    /\ UNCHANGED <<runs, otherVars, aggVars, queryVars, route, body, node_id, offset, session, fault, raised,
                   result, previous>>

\* status of the HTTPException the handler raises for a caught exception
ErrorStatus(e) == 500

\* except Exception as e: raise HTTPException(status_code=500, ...), of both
\* routes; HTTPException is an Exception and is caught as well
RouteExcept ==
    /\ pc = "raised"
    /\ response' = Http(ErrorStatus(raised), NoResult)
    /\ pc' = "responded"
    /\ UNCHANGED <<runs, otherVars, aggVars, queryVars, route, body, node_id, offset, session, fault, raised,
                   result, previous>>

IsDigits(sq) == Len(sq) > 0 /\ \A i \in 1..Len(sq) : sq[i] \in Elems(Digit)

DigitValue(c) == CHOOSE i \in 0..9 : Digit[i + 1] = c

RECURSIVE IntOf(_)
\* int(node_id) of a string of decimal digits
IntOf(sq) ==
    IF Len(sq) = 0 THEN 0
    ELSE 10 * IntOf(SubSeq(sq, 1, Len(sq) - 1)) + DigitValue(sq[Len(sq)])

\* get_node_details: with neo4j_conn.get_session() as session
GetNodeDetailsEnter ==
    /\ pc = "request"
    /\ route = "detail"
    /\ session' = "open"
    /\ pc' = "detail"
    /\ UNCHANGED <<runs, otherVars, aggVars, queryVars, route, body, node_id, offset, fault, raised, result,
                   response, previous>>

\* build_node_detail_query: {"node_id": int(node_id)} raises ValueError on a
\* string that is no integer
BuildNodeDetailQuery ==
    /\ pc = "detail"
    /\ IF IsDigits(node_id)
       THEN /\ query' = [k |-> "detail", node_id |-> IntOf(node_id)]
            /\ pc' = "detail_built"
            /\ UNCHANGED raised
       ELSE /\ raised' = Exc("ValueError")
            /\ pc' = "failed"
            /\ UNCHANGED query
    /\ UNCHANGED <<runs, otherVars, aggVars, filters, limit, graph, coerce, rows, route, body, node_id,
                   offset, session, fault, result, response, previous>>

\* variant: MATCH in place of OPTIONAL MATCH, no record for a node without
\* relationships
NodeDetailsNoneWhenIsolated(g, n) ==
    IF Incident(g, n) = {} THEN [k |-> "None"]
    ELSE [k |-> "detail",
          node |-> NodeData(n),
          relationships |->
             {[key \in {"id", "type", "target"} \cup DOMAIN r.props |->
                 IF key \in DOMAIN r.props THEN r.props[key]
                 ELSE IF key = "id" THEN Str(ToStr(r.id))
                 ELSE IF key = "type" THEN Str(r.type)
                 ELSE Str(ToStr(r.end))] : r \in Incident(g, n)},
          connected_nodes_count |-> Cardinality(Incident(g, n))]

\* the dict get_node_details returns for the record of node n
NodeDetails(g, n) ==
    [k |-> "detail",
     node |-> NodeData(n),
     relationships |->
        {[key \in {"id", "type", "target"} \cup DOMAIN r.props |->
            IF key \in DOMAIN r.props THEN r.props[key]
            ELSE IF key = "id" THEN Str(ToStr(r.id))
            ELSE IF key = "type" THEN Str(r.type)
            ELSE Str(ToStr(r.end))] : r \in Incident(g, n)},
     connected_nodes_count |-> Cardinality(Incident(g, n))]

\* record = result.single(); if not record: return None; else return {...}
RunNodeDetailQuery ==
    /\ pc = "detail_built"
    /\ fault = "none"
    /\ LET found == {n \in graph.nodes : n.id = query.node_id}
       IN IF found = {} THEN result' = [k |-> "None"]
          ELSE \E n \in found : result' = NodeDetails(graph, n)
    /\ session' = SessionExit(session, FALSE)
    /\ runs' = EngineCalls(runs)
    /\ pc' = "returned"
    /\ UNCHANGED <<otherVars, aggVars, queryVars, route, body, node_id, offset, fault, raised,
                   response, previous>>

\* session.run of the detail query raises an engine error
RunNodeDetailQueryFails ==
    /\ pc = "detail_built"
    /\ fault = "error"
    /\ raised' = Exc("Neo4jError")
    /\ runs' = EngineCalls(runs)
    /\ pc' = "failed"
    /\ UNCHANGED <<otherVars, aggVars, queryVars, route, body, node_id, offset, session, fault, result,
                   response, previous>>

\* if not result: raise HTTPException(status_code=404, detail="Node not found"),
\* inside the try block of the route
RouteNodeNotFound ==
    /\ pc = "returned"
    /\ route = "detail"
    /\ result.k = "None"
    /\ raised' = HTTPException(404)
    /\ pc' = "raised"
    /\ UNCHANGED <<runs, otherVars, aggVars, queryVars, route, body, node_id, offset, session, fault, result,
                   response, previous>>

\* return {"success": True, "data": result} of the detail route
RouteNodeReturns ==
    /\ pc = "returned"
    /\ route = "detail"
    /\ result.k # "None"
    /\ response' = Http(200, result)
    /\ pc' = "responded"
    /\ UNCHANGED <<runs, otherVars, aggVars, queryVars, route, body, node_id, offset, session, fault, raised,
                   result, previous>>

\* get_graph_summary: `with graph_service.neo4j_conn.get_session() as session`;
\* GraphService.__init__ sets query_builder only, so the attribute lookup
\* raises AttributeError inside the try block, before a session exists
GetGraphSummary ==
    /\ pc = "request"
    /\ route = "summary"
    /\ raised' = Exc("AttributeError")
    /\ pc' = "raised"
    /\ UNCHANGED <<runs, otherVars, aggVars, queryVars, route, body, node_id, offset, session,
                   fault, result, response, previous>>

NextRoute ==
    \/ GetGraphSummary
    \/ ValidateRequest
    \/ GetGraphDataEnter
    \/ BuildGraphQuery
    \/ RunQuery
    \/ RunQueryFails
    \/ RunQueryUnavailable
    \/ ProcessResults
    \/ CalculateMetadata
    \/ ReturnGraphData
    \/ ServiceRaises
    \/ RouteReturns
    \/ RouteExcept
    \/ GetNodeDetailsEnter
    \/ BuildNodeDetailQuery
    \/ RunNodeDetailQuery
    \/ RunNodeDetailQueryFails
    \/ RouteNodeNotFound
    \/ RouteNodeReturns

----------------------------------------------------------------------------
(* Inputs of the routes *)

RawLimits == {Absent, JsonNull, RawInt(0), RawInt(1), RawInt(MaxLimit), RawInt(MaxLimit + 1)}
RawOffsets == {Absent, RawInt(0), RawInt(1), RawInt(-1)}
\* field names of the filters object that GraphFilters does not declare
ExtraFieldSets == {{}, {"regionz"}}
Bodies == [limit : RawLimits, offset : RawOffsets, extra : ExtraFieldSets]

RouteFields == {"node_types", "regions", "client_companies", "rating_change", "rating_range"}

RouteValue(fld) ==
    IF fld \in RangeFields THEN FMap("min" :> 2) ELSE FList(SampleList(fld))

RouteFilters ==
    {NoFilters, [present |-> TRUE, f |-> AllNone]}
    \cup {[present |-> TRUE,
           f |-> [[AllNone EXCEPT ![a] = RouteValue(a)] EXCEPT ![b] = RouteValue(b)]] :
            a \in RouteFields, b \in RouteFields}

RouteRels ==
    {[id |-> 1, start |-> 1, end |-> 2, type |-> "RATES",
      props |-> [p \in {"rating_change"} |-> Str("Upgrade")]],
     [id |-> 2, start |-> 1, end |-> 2, type |-> "RATES",
      props |-> [p \in {"rating_change"} |-> Str("Downgrade")]],
     [id |-> 3, start |-> 2, end |-> 1, type |-> "RATES",
      props |-> [p \in {"rankvalue"} |-> Num(5)]]}

\* labels of the second node in the order list(node.labels) yields them; the
\* graph may carry labels the NodeType enumeration does not name
RouteLabelSeqs == {<<"PRODUCT">>, <<"Legacy", "PRODUCT">>}

RouteGraphs ==
    {[nodes |-> {[id |-> 1, labels |-> <<"COMPANY">>,
                  props |-> ("name" :> Str("n1")) @@ ("region" :> Str("EMEA"))],
                 [id |-> 2, labels |-> ls, props |-> ("name" :> Str("n2"))]},
      rels |-> rs] : rs \in SUBSET RouteRels, ls \in RouteLabelSeqs}

NodeIdStrings == {<<"1">>, <<"3">>, <<"1", "2">>, <<"x">>}

Faults == {"none", "unavailable", "error"}

InitRoute ==
    /\ pc = "request"
    /\ AggIdle
    /\ route \in {"bulk", "detail", "summary"}
    /\ IF route = "bulk"
       THEN body \in Bodies /\ filters \in RouteFilters /\ node_id = <<>>
       ELSE IF route = "detail"
       THEN body = DefaultBody /\ filters = NoFilters /\ node_id \in NodeIdStrings
       ELSE body = DefaultBody /\ filters = NoFilters /\ node_id = <<>>
    /\ limit = Null
    /\ offset = Null
    /\ graph \in RouteGraphs
    /\ coerce \in BOOLEAN
    /\ query = NoQuery
    /\ rows = {}
    /\ session = "none"
    /\ fault \in Faults
    /\ raised = NoExc
    /\ result = NoResult
    /\ response = NoResponse
    /\ previous = NoQuery
    /\ runs = 0
    /\ summary = NoSummary
    /\ calls = NoCalls

SpecRoute == InitRoute /\ [][NextRoute]_vars

----------------------------------------------------------------------------
(* The body of get_graph_summary from session.run on: the summary query    *)
(* over a graph, and the loop that folds its records into the summary, for *)
(* a service object on which the session is obtained.                      *)

SummaryNodePool ==
    {[id |-> 1, labels |-> <<"COMPANY">>, props |-> NoProps],
     [id |-> 2, labels |-> <<"PRODUCT">>, props |-> NoProps],
     [id |-> 3, labels |-> <<"COMPANY", "PRODUCT">>, props |-> NoProps]}

SummaryRelPool ==
    {[id |-> 1, start |-> 1, end |-> 2, type |-> "OWNS", props |-> NoProps],
     [id |-> 2, start |-> 1, end |-> 2, type |-> "RATES", props |-> NoProps],
     [id |-> 3, start |-> 2, end |-> 1, type |-> "RATES", props |-> NoProps]}

\* a relationship exists between nodes of the graph only
SummaryGraphs ==
    {g \in [nodes : SUBSET SummaryNodePool, rels : SUBSET SummaryRelPool] :
        \A r \in g.rels : {r.start, r.end} \subseteq {n.id : n \in g.nodes}}

\* MATCH (n) OPTIONAL MATCH ()-[r]-() RETURN labels(n), count(DISTINCT n),
\* type(r), count(DISTINCT r): the optional pattern is independent of n, the
\* grouping keys are (labels(n), type(r)), and r is null when the graph has
\* no relationship
SummaryRows(g) ==
    LET types == IF g.rels = {} THEN {Null} ELSE {Str(r.type) : r \in g.rels}
    IN {[node_labels |-> ls,
         node_count |-> Cardinality({n \in g.nodes : n.labels = ls}),
         relationship_type |-> t,
         relationship_count |-> Cardinality({r \in g.rels : Str(r.type) = t})] :
            ls \in {n.labels : n \in g.nodes}, t \in types}

RECURSIVE CountLabels(_, _, _, _)
\* for label in record['node_labels']:
\*     summary["node_counts"][label] = record['node_count']
\*     summary["total_nodes"] += record['node_count']
CountLabels(s, labels, i, count) ==
    IF i > Len(labels) THEN s
    ELSE CountLabels([s EXCEPT !.node_counts = (labels[i] :> count) @@ @,
                               !.total_nodes = @ + count],
                     labels, i + 1, count)

\* if record['relationship_type']:
\*     summary["relationship_counts"][type] = record['relationship_count']
\*     summary["total_relationships"] += record['relationship_count']
CountRelationshipType(s, record) ==
    IF record.relationship_type # Null
    THEN [s EXCEPT !.relationship_counts =
                       (record.relationship_type.s[1] :> record.relationship_count) @@ @,
                   !.total_relationships = @ + record.relationship_count]
    ELSE s

\* one iteration of `for record in result`
SummariseRecord(s, record) ==
    CountRelationshipType(
        IF record.node_labels # <<>>
        THEN CountLabels(s, record.node_labels, 1, record.node_count)
        ELSE s,
        record)

\* result = session.run(build_summary_query()); summary = {...}
RunSummaryQuery ==
    /\ pc = "summary"
    /\ rows' = SummaryRows(graph)
    /\ runs' = EngineCalls(runs)
    /\ summary' = NoSummary
    /\ pc' = "summary_loop"
    /\ UNCHANGED <<calls, aggVars, filters, limit, graph, coerce, query, routeVars>>

\* for record in result: the records arrive in the order the engine yields them
SummaryRecord ==
    /\ pc = "summary_loop"
    /\ \E record \in rows :
        /\ summary' = SummariseRecord(summary, record)
        /\ rows' = rows \ {record}
    /\ UNCHANGED <<pc, runs, calls, aggVars, filters, limit, graph, coerce, query, routeVars>>

\* return {"success": True, "data": summary}
SummaryReturns ==
    /\ pc = "summary_loop"
    /\ rows = {}
    /\ response' = Http(200, summary)
    /\ session' = SessionExit(session, FALSE)
    /\ pc' = "responded"
    /\ UNCHANGED <<runs, otherVars, aggVars, queryVars, route, body, node_id, offset, fault,
                   raised, result, previous>>

NextSummary ==
    \/ RunSummaryQuery
    \/ SummaryRecord
    \/ SummaryReturns

InitSummary ==
    /\ pc = "summary"
    /\ AggIdle
    /\ filters = NoFilters
    /\ limit = Null
    /\ graph \in SummaryGraphs
    /\ coerce = TRUE
    /\ query = NoQuery
    /\ rows = {}
    /\ route = "summary"
    /\ body = DefaultBody
    /\ node_id = <<>>
    /\ offset = Num(0)
    /\ session = "open"
    /\ fault = "none"
    /\ raised = NoExc
    /\ result = NoResult
    /\ response = NoResponse
    /\ previous = NoQuery
    /\ runs = 0
    /\ summary = NoSummary
    /\ calls = NoCalls

SpecSummary == InitSummary /\ [][NextSummary]_vars

----------------------------------------------------------------------------
(* Two invocations of get_graph_data in progress at once.  Each has its own *)
(* GraphQuery, result records and locals; a step of one invocation is the  *)
(* build of its query, the handling of one node or relationship of its     *)
(* records, the return of _process_results or the metadata computation.    *)

MaxCallRows == 2

Invocations == {1, 2}

EmptyAcc == [nodes |-> <<>>, edges |-> <<>>, node_ids |-> {}, edge_ids |-> {}]

\* variant: the dedup sets kept on the service object, shared by the invocations
InvocationAccSharedIds(c, i) ==
    [nodes |-> c[i].nodes, edges |-> c[i].edges,
     node_ids |-> UNION {c[j].node_ids : j \in DOMAIN c},
     edge_ids |-> UNION {c[j].edge_ids : j \in DOMAIN c}]

\* nodes, edges, node_ids, edge_ids are locals of the invocation's _process_results
InvocationAcc(c, i) ==
    [nodes |-> c[i].nodes, edges |-> c[i].edges,
     node_ids |-> c[i].node_ids, edge_ids |-> c[i].edge_ids]

RECURSIVE TagAll(_, _, _)
TagAll(kind, snaps, i) ==
    IF i > Len(snaps) THEN <<>>
    ELSE <<[kind |-> kind, snap |-> snaps[i]]>> \o TagAll(kind, snaps, i + 1)

RECURSIVE ItemsOf(_, _)
\* the nodes and relationships of the records in the order the loops visit them
ItemsOf(recs, i) ==
    IF i > Len(recs) THEN <<>>
    ELSE <<[kind |-> "node", snap |-> recs[i].n]>>
         \o TagAll("node", recs[i].connected_nodes, 1)
         \o TagAll("rel", recs[i].relationships, 1)
         \o ItemsOf(recs, i + 1)

\* cypher_query, parameters = self.query_builder.build_graph_query(query)
CallBuild ==
    /\ pc = "calls"
    /\ \E i \in Invocations :
        /\ calls[i].pc = "start"
        /\ calls' = [calls EXCEPT ![i].query = BuildGraphQueryOf(calls[i].filters, calls[i].limit),
                                  ![i].pc = "loop"]
    /\ UNCHANGED <<pc, aggVars, queryVars, routeVars, runs, summary>>

\* one `if x and x.id not in ids: append; add` of the invocation's loops
CallStep ==
    /\ pc = "calls"
    /\ \E i \in Invocations :
        /\ calls[i].pc = "loop"
        /\ calls[i].pos < Len(ItemsOf(calls[i].recs, 1))
        /\ LET item == ItemsOf(calls[i].recs, 1)[calls[i].pos + 1]
               acc == InvocationAcc(calls, i)
               new == IF item.kind = "node" THEN AddNode(acc, item.snap)
                      ELSE AddEdge(acc, item.snap)
           IN calls' = [calls EXCEPT ![i].nodes = new.nodes, ![i].edges = new.edges,
                                     ![i].node_ids = new.node_ids,
                                     ![i].edge_ids = new.edge_ids,
                                     ![i].pos = @ + 1]
    /\ UNCHANGED <<pc, aggVars, queryVars, routeVars, runs, summary>>

\* return nodes, edges
CallReturn ==
    /\ pc = "calls"
    /\ \E i \in Invocations :
        /\ calls[i].pc = "loop"
        /\ calls[i].pos = Len(ItemsOf(calls[i].recs, 1))
        /\ calls' = [calls EXCEPT ![i].pc = "processed"]
    /\ UNCHANGED <<pc, aggVars, queryVars, routeVars, runs, summary>>

\* metadata = self._calculate_metadata(nodes, edges, query)
CallMetadata ==
    /\ pc = "calls"
    /\ \E i \in Invocations :
        /\ calls[i].pc = "processed"
        /\ calls' = [calls EXCEPT ![i].metadata =
                                      CalculateMetadataOf(calls[i].nodes, calls[i].edges),
                                  ![i].pc = "done"]
    /\ UNCHANGED <<pc, aggVars, queryVars, routeVars, runs, summary>>

NextConcurrent ==
    \/ CallBuild
    \/ CallStep
    \/ CallReturn
    \/ CallMetadata

\* node and relationship snapshots the two result sets are made of
CallNodes ==
    {[id |-> 1, labels |-> <<"COMPANY">>, props |-> [p \in {"name"} |-> Str("A")]],
     [id |-> 1, labels |-> <<"COMPANY">>, props |-> [p \in {"name"} |-> Str("B")]],
     [id |-> 2, labels |-> <<"PRODUCT">>, props |-> [p \in {"name"} |-> Str("A")]]}

CallNeighbour == [id |-> 3, labels |-> <<"PRODUCT">>, props |-> [p \in {"name"} |-> Str("C")]]

CallRel(n) ==
    [id |-> 1, start |-> n.id, end |-> 3, type |-> "RATES",
     props |-> [p \in {"rating_change"} |-> Str("Upgrade")]]

CallRecords ==
    {[n |-> n, connected_nodes |-> <<>>, relationships |-> <<>>] : n \in CallNodes}
    \cup {[n |-> n, connected_nodes |-> <<CallNeighbour>>, relationships |-> <<CallRel(n)>>] :
            n \in CallNodes}

CallRecordSeqs == UNION {[1..k -> CallRecords] : k \in 0..MaxCallRows}

CallFilters ==
    {NoFilters, [present |-> TRUE, f |-> [AllNone EXCEPT !["regions"] = FList(<<"EMEA">>)]]}

\* an invocation that has entered get_graph_data
CallStarts ==
    {[pc |-> "start", filters |-> flt, limit |-> Null, query |-> NoQuery, recs |-> recs,
      pos |-> 0, nodes |-> <<>>, edges |-> <<>>, node_ids |-> {}, edge_ids |-> {},
      metadata |-> [k |-> "none"]] : flt \in CallFilters, recs \in CallRecordSeqs}

InitConcurrent ==
    /\ pc = "calls"
    /\ AggIdle
    /\ filters = NoFilters
    /\ limit = Null
    /\ graph = EmptyGraph
    /\ coerce = TRUE
    /\ query = NoQuery
    /\ rows = {}
    /\ route = "bulk"
    /\ body = DefaultBody
    /\ node_id = <<>>
    /\ offset = Num(0)
    /\ session = "open"
    /\ fault = "none"
    /\ raised = NoExc
    /\ result = NoResult
    /\ response = NoResponse
    /\ previous = NoQuery
    /\ runs = 0
    /\ summary = NoSummary
    /\ calls \in [Invocations -> CallStarts]

SpecConcurrent == InitConcurrent /\ [][NextConcurrent]_vars

----------------------------------------------------------------------------
(* Claims about the aggregator and the summarizer *)

RECURSIVE SumValues(_)
SumValues(f) ==
    IF DOMAIN f = {} THEN 0
    ELSE LET k == CHOOSE x \in DOMAIN f : TRUE
         IN f[k] + SumValues([y \in DOMAIN f \ {k} |-> f[y]])

Returned == pc \in {"processed", "done"}

NodeIdsOf(ns) == {ns[i]["id"] : i \in 1..Len(ns)}

\* C2: the returned node list holds no two entries with the same `id` and the
\* returned edge list holds no two entries with the same `id`.
C2_NoDuplicateIds ==
    Returned =>
        /\ \A i, j \in 1..Len(nodes) : i # j => nodes[i]["id"] # nodes[j]["id"]
        /\ \A i, j \in 1..Len(edges) : i # j => edges[i]["id"] # edges[j]["id"]

\* C3: every returned edge has its source and its target among the `id`s of
\* the returned nodes.
C3_EndpointsPresent ==
    Returned =>
        \A i \in 1..Len(edges) :
            /\ edges[i]["source"] \in NodeIdsOf(nodes)
            /\ edges[i]["target"] \in NodeIdsOf(nodes)

\* C4: first-wins deduplication: the result holds, for every engine id met,
\* exactly the snapshot of its first encounter in processing order, in order
\* of first encounter; later snapshots neither replace nor change an entry.
C4_FirstWins ==
    Returned =>
        /\ Len(nodes) = Len(firstNodes)
        /\ \A i \in 1..Len(nodes) : nodes[i] = NodeData(firstNodes[i])
        /\ Len(edges) = Len(firstEdges)
        /\ \A i \in 1..Len(edges) : edges[i] = EdgeData(firstEdges[i])

\* C5: total_nodes = len(nodes), total_edges = len(edges) and the values of
\* node_type_counts sum to total_nodes.
C5_MetadataTotals ==
    pc = "done" =>
        /\ metadata.total_nodes = Len(nodes)
        /\ metadata.total_edges = Len(edges)
        /\ SumValues(metadata.node_type_counts) = metadata.total_nodes

\* C5 witness: metadata computed over nodes of two different kinds.
C5_Witness ==
    /\ pc = "done"
    /\ Len(nodes) >= 2
    /\ Cardinality(DOMAIN metadata.node_type_counts) = 2
    /\ Len(edges) >= 1

----------------------------------------------------------------------------
(* Claims about the query builder and the meaning of its query *)

Built == pc \in {"built", "ran", "failed"}

Populated(fld) == filters.present /\ Truthy(filters.f[fld])

ClaimedRelFields == {"rating_range", "rating_change", "rank_group", "rank_order_range"}

\* C1 as stated: with none of rating range, rating-change set, rank-group set
\* and rank-order range set the node-only shape is emitted, and with any one
\* of them set the relationship shape.
C1_ShapeByFourFields ==
    Built =>
        IF \E fld \in ClaimedRelFields : Populated(fld)
        THEN query.shape = "relationship"
        ELSE query.shape = "node_only"

RatingsPopulated ==
    /\ filters.present
    /\ filters.f["consultant_product_ratings"].k = "map"
    /\ {"min", "max"} \cap DOMAIN filters.f["consultant_product_ratings"].m # {}

\* C1 amended: the relationship shape is emitted exactly when one of rating
\* range, rating-change set, rank-group set, rank-order range is non-empty or
\* consultant_product_ratings carries a min or max key; otherwise node-only.
C1_ShapeSelection ==
    Built =>
        IF RatingsPopulated \/ \E fld \in ClaimedRelFields : Populated(fld)
        THEN query.shape = "relationship"
        ELSE query.shape = "node_only"

\* C1 witness: a relationship field and a node field are both populated and
\* the relationship shape was emitted.
C1_Witness ==
    /\ pc = "built"
    /\ Populated("rank_group")
    /\ Populated("regions")
    /\ query.shape = "relationship"

\* bindings (n, r) of the graph: every node with each incident relationship
\* and with no relationship
Bindings == {<<n, r>> : n \in graph.nodes, r \in graph.rels \cup {NoRel}}

FragmentValue(frag, n, r) == EvalExpr(frag, n, r, query.parameters, coerce)

\* C6: in the node-only shape no row has a primary entity n that fails a
\* populated node filter.
C6_NodeFiltersConstrainPrimary ==
    (pc = "ran" /\ query.shape = "node_only") =>
        \A row \in rows : \A fld \in NodeFields :
            Populated(fld) => FragmentValue(NodeFragment(fld), row.n, NoRel) = "T"

NameFields == {"field_consultant", "product", "client_companies", "consultant_companies"}

StoredIn(n, prop, fld) ==
    /\ prop \in DOMAIN n.props
    /\ n.props[prop].k = "str"
    /\ n.props[prop].s[1] \in Elems(filters.f[fld].s)

NameOrIdIn(n, fld) ==
    \/ StoredIn(n, "name", fld)
    \/ StoredIn(n, "id", fld)
    \/ fld = "product" /\ StoredIn(n, "product_id", fld)

\* C7: with a name/identifier filter populated, the WHERE condition holds only
\* of bindings that satisfy every populated filter and whose entity has its
\* name or identifier in the requested set.
C7_NameFilterIsOneConjunct ==
    Built =>
        \A b \in Bindings : \A fld \in NameFields :
            (Populated(fld) /\ EvalWhere(query, b[1], b[2], coerce) = "T") =>
                /\ NameOrIdIn(b[1], fld)
                /\ \A i \in 1..Len(query.where_conditions) :
                      FragmentValue(query.where_conditions[i], b[1], b[2]) = "T"

\* the fragment of the built query that binds the given parameter
FragmentFor(param) ==
    CHOOSE c \in Elems(query.where_conditions) : \E j \in 1..Len(c) : c[j].param = param

StoredProp(fld) == IF fld = "regions" THEN "region" ELSE "channel"

HasRequested(n, prop, fld) ==
    /\ prop \in DOMAIN n.props
    /\ Elems(n.props[prop].s) \cap Elems(filters.f[fld].s) # {}

ParamsOfField(fld) ==
    CASE fld = "consultant_product_ratings" -> {"min_rating", "max_rating"}
      [] fld = "rating_range" -> {"rating_min", "rating_max"}
      [] fld = "rank_order_range" -> {"rank_min", "rank_max"}
      [] OTHER -> {fld}

\* C10: an absent, None or empty field contributes no fragment and no
\* parameter; with no populated field there is no WHERE clause, the
\* parameters hold only the limit and every entity is matched.
C10_EmptyFieldsContributeNothing ==
    Built =>
        /\ \A fld \in Fields :
              ~Populated(fld) =>
                  /\ ParamsOfField(fld) \cap DOMAIN query.parameters = {}
                  /\ \A j \in 1..Len(query.where) : query.where[j].param \notin ParamsOfField(fld)
        /\ (\A fld \in Fields : ~Populated(fld)) =>
              /\ ~query.has_where
              /\ query.where = <<>>
              /\ DOMAIN query.parameters = {"limit"}
              /\ {row.n : row \in MatchRows(query, graph, coerce)} = graph.nodes

\* C10 witness: a query ran whose filters hold an empty list and an empty
\* range mapping and nothing else.
C10_Witness ==
    /\ pc = "ran"
    /\ filters.present
    /\ filters.f["regions"] = FList(<<>>)
    /\ filters.f["rating_range"] = FMap(NoMap)
    /\ Cardinality(rows) = 2

----------------------------------------------------------------------------
(* Claims about numeric ranges *)

ClaimedRangeFields == {"rating_range", "rank_order_range"}

RangeFloor(fld) == IF fld = "rating_range" THEN 0 ELSE 1
RangeCeiling(fld) == IF fld = "rating_range" THEN 10 ELSE 100

OnlyOneBound(fld) == Populated(fld) /\ DOMAIN filters.f[fld].m \in {{"min"}, {"max"}}

\* the filters with the missing bound of fld written out as floor / ceiling
Completed(fld) ==
    [filters EXCEPT !.f[fld] =
        FMap([key \in {"min", "max"} |->
                IF key \in DOMAIN @.m THEN @.m[key]
                ELSE IF key = "min" THEN RangeFloor(fld) ELSE RangeCeiling(fld)])]

LowParam(fld) == IF fld = "rating_range" THEN "rating_min" ELSE "rank_min"
HighParam(fld) == IF fld = "rating_range" THEN "rating_max" ELSE "rank_max"

\* a relationship that stores the number v under the property the fragment tests
RelStoring(frag, v) ==
    [id |-> 1, start |-> 1, end |-> 2, type |-> "RATES",
     props |-> [p \in {frag[1].prop} |-> Num(v)]]

\* C11: a range with only min (only max) given compiles to the same fragments
\* and parameters as the range with max = ceiling (min = floor) written out,
\* floor/ceiling being 0/10 for the rating range and 1/100 for the rank-order
\* range; the compiled interval contains both of its bounds and nothing
\* next to them on the outside.
C11_OpenRangeDefaults ==
    Built =>
        \A fld \in ClaimedRangeFields :
            OnlyOneBound(fld) =>
                /\ query = BuildGraphQueryOf(Completed(fld), limit)
                /\ LET frag == FragmentFor(LowParam(fld))
                       lo == query.parameters[LowParam(fld)].n
                       hi == query.parameters[HighParam(fld)].n
                   IN /\ FragmentValue(frag, Neighbour, RelStoring(frag, lo)) = "T"
                      /\ FragmentValue(frag, Neighbour, RelStoring(frag, hi)) = "T"
                      /\ FragmentValue(frag, Neighbour, RelStoring(frag, lo - 1)) = "F"
                      /\ FragmentValue(frag, Neighbour, RelStoring(frag, hi + 1)) = "F"

\* C11 witness: a rank-order range with only min compiled, with the ceiling bound.
C11_Witness ==
    /\ pc = "built"
    /\ filters.f["rank_order_range"] = FMap("min" :> 2)
    /\ query.parameters["rank_min"] = Num(2)
    /\ query.parameters["rank_max"] = Num(100)

----------------------------------------------------------------------------
(* Claims about the bulk query from request to response *)

Aggregated == route = "bulk" /\ pc \in {"processed", "done", "returned"}

\* C12: with a rating-change set S requested (and no name/identifier filter
\* next to it) the relationship shape is used and every edge of the final
\* edge list carries a rating_change that is in S.
C12_RatingChangeFiltersEdges ==
    (Aggregated /\ Populated("rating_change") /\ \A fld \in NameFields : ~Populated(fld)) =>
        /\ query.shape = "relationship"
        /\ \A i \in 1..Len(edges) :
              /\ "rating_change" \in DOMAIN edges[i]
              /\ edges[i]["rating_change"].k = "str"
              /\ edges[i]["rating_change"].s[1] \in Elems(filters.f["rating_change"].s)

\* C12 witness: only rating_change = ["Upgrade"] requested on a graph holding
\* an Upgrade, a Downgrade and an unrated relationship; one edge is returned.
C12_Witness ==
    /\ pc = "processed"
    /\ filters = [present |-> TRUE, f |-> [AllNone EXCEPT !["rating_change"] = FList(<<"Upgrade">>)]]
    /\ graph.rels = RouteRels
    /\ Len(edges) = 1
    /\ Len(nodes) = 2

\* C13: entity detail for an identifier that resolves to no entity is
\* answered 404 without payload.
C13_UnknownIdIsNotFound ==
    (pc = "responded" /\ route = "detail" /\ result.k = "None") =>
        /\ response.status = 404
        /\ response.data = NoResult

EngineFailures == {"ServiceUnavailable", "Neo4jError"}

\* C14: the outcome reported for a failing bulk query is not the outcome
\* reported for a failure of another cause.
C14_DistinctFailureOutcomes ==
    (pc = "responded" /\ route = "bulk" /\ raised # NoExc) =>
        \A class \in EngineFailures :
            class # raised.class => ErrorStatus(Exc(class)) # response.status

\* C15: a body whose filters name an undeclared field is rejected before a
\* session is opened or a query is built, and is never answered 200.
C15_UnknownFieldRejected ==
    (route = "bulk" /\ body.extra # {} /\ pc # "request") =>
        /\ pc = "responded"
        /\ response.status # 200
        /\ query = NoQuery
        /\ session = "none"

InsideService ==
    pc \in {"start", "built", "ran", "processed", "done", "failed", "detail", "detail_built"}

\* C16: in a bulk-query or entity-detail operation the session is open while
\* the service method runs and is closed once the method has returned or
\* raised; no operation ends with it open.
C16_SessionScoped ==
    /\ InsideService => session = "open"
    /\ (route \in {"bulk", "detail"} /\ pc \in {"returned", "raised"}) => session = "closed"
    /\ pc = "responded" => session # "open"

\* C16 witness: a bulk query whose engine call failed has been answered and
\* its session is closed.
C16_Witness ==
    /\ pc = "responded"
    /\ route = "bulk"
    /\ raised = Exc("ServiceUnavailable")
    /\ session = "closed"

\* C17: the limit bound in the parameters is an integer in 1..10000, and is
\* 1000 when the body names no limit or names it null.
C17_LimitBounded ==
    query.k = "query" =>
        /\ query.parameters["limit"].k = "num"
        /\ query.parameters["limit"].n >= 1
        /\ query.parameters["limit"].n <= 10000
        /\ body.limit.k \in {"absent", "null"} => query.parameters["limit"].n = 1000

\* C17 witness: a query built for a body whose limit is null.
C17_Witness ==
    /\ pc = "built"
    /\ body.limit = JsonNull
    /\ limit = Null
    /\ query.parameters["limit"] = Num(1000)

Max(a, b) == IF a > b THEN a ELSE b

\* C18: the offset is bound in the parameters and the rows returned leave
\* out the first `offset` matched rows.
C18_OffsetApplied ==
    (route = "bulk" /\ query.k = "query") =>
        /\ "offset" \in DOMAIN query.parameters
        /\ pc = "ran" =>
              Cardinality(rows)
                  <= Max(0, Cardinality(MatchRows(query, graph, coerce)) - offset.n)

\* C19: the node list of a bulk-query result holds at most `limit` nodes.
C19_NodesWithinLimit ==
    Aggregated => Len(nodes) <= query.parameters["limit"].n

----------------------------------------------------------------------------
(* Claims about repeated compilation *)

----------------------------------------------------------------------------
(* Claims about the global summary *)

\* C21: with the engine available the summary operation is answered 200 with
\* the summary as its payload.
C21_SummarySucceeds ==
    (pc = "responded" /\ route = "summary" /\ fault = "none") =>
        /\ response.status = 200
        /\ response.data # NoResult

----------------------------------------------------------------------------
(* Claims about the fields of aggregated nodes and edges *)

RecognisedKinds == {"CONSULTANT", "FIELD_CONSULTANT", "COMPANY", "PRODUCT"}

RECURSIVE FirstRecognised(_, _)
FirstRecognised(labels, i) ==
    IF i > Len(labels) THEN "Unknown"
    ELSE IF labels[i] \in RecognisedKinds THEN labels[i]
    ELSE FirstRecognised(labels, i + 1)

\* C22: the `type` of every aggregated node is the first of its labels that
\* the enumeration names, and `Unknown` when none of them is.
C22_KindIsFirstRecognisedLabel ==
    Aggregated =>
        \A i \in 1..Len(nodes) :
            nodes[i]["type"] = Str(FirstRecognised(nodes[i]["labels"].s, 1))

----------------------------------------------------------------------------
(* Claims about the relationship statistics of the metadata *)

\* positions of the returned OWNS edges that carry a mandate_status
OwnsWithStatus ==
    {i \in 1..Len(edges) :
        edges[i]["type"] = Str("OWNS") /\ "mandate_status" \in DOMAIN edges[i]}

\* C23: edge_type_counts holds, for each type among the edges, the number of
\* edges of that type, and sums to total_edges; mandate_status_counts holds,
\* for each status among the OWNS edges, the number of OWNS edges with that
\* status, and sums to the number of OWNS edges carrying a mandate_status.
C23_EdgeAndMandateCounts ==
    pc = "done" =>
        /\ DOMAIN metadata.edge_type_counts = {edges[i]["type"] : i \in 1..Len(edges)}
        /\ \A t \in DOMAIN metadata.edge_type_counts :
              metadata.edge_type_counts[t]
                  = Cardinality({i \in 1..Len(edges) : edges[i]["type"] = t})
        /\ SumValues(metadata.edge_type_counts) = metadata.total_edges
        /\ DOMAIN metadata.mandate_status_counts
              = {edges[i]["mandate_status"] : i \in OwnsWithStatus}
        /\ \A st \in DOMAIN metadata.mandate_status_counts :
              metadata.mandate_status_counts[st]
                  = Cardinality({i \in OwnsWithStatus : edges[i]["mandate_status"] = st})
        /\ SumValues(metadata.mandate_status_counts) = Cardinality(OwnsWithStatus)

\* C23 witness: metadata over an OWNS edge and a RATES edge that both carry a
\* mandate_status; only the OWNS edge is counted.
C23_Witness ==
    /\ pc = "done"
    /\ Len(edges) = 2
    /\ Cardinality(OwnsWithStatus) = 1
    /\ \A i \in 1..2 : "mandate_status" \in DOMAIN edges[i]
    /\ SumValues(metadata.mandate_status_counts) = 1

----------------------------------------------------------------------------
(* Claims about concurrent invocations *)

\* C24: whatever the interleaving of two invocations, each ends with the
\* query, the node list, the edge list and the metadata it produces when it
\* runs alone on its own GraphQuery and records.
C24_InvocationsIsolated ==
    \A i \in DOMAIN calls :
        calls[i].pc = "done" =>
            LET alone == FoldRecords(EmptyAcc, calls[i].recs, 1)
            IN /\ calls[i].nodes = alone.nodes
               /\ calls[i].edges = alone.edges
               /\ calls[i].metadata = CalculateMetadataOf(alone.nodes, alone.edges)
               /\ calls[i].query = BuildGraphQueryOf(calls[i].filters, calls[i].limit)

\* C24 witness: the first invocation finished while the second was in its
\* loop, both having met node 1 and relationship 1, with different snapshots
\* of node 1 and different filters.
C24_Witness ==
    /\ calls # NoCalls
    /\ calls[1].pc = "done"
    /\ calls[2].pc = "loop"
    /\ 1 \in calls[1].node_ids \cap calls[2].node_ids
    /\ 1 \in calls[1].edge_ids \cap calls[2].edge_ids
    /\ calls[1].nodes[1] # calls[2].nodes[1]
    /\ calls[1].filters # calls[2].filters

----------------------------------------------------------------------------
(* Claims about the order of compilation and engine call *)

\* C25: no session.run is issued before the query is compiled, none is issued
\* by an operation whose compilation raised, and an operation issues at most
\* one.
C25_CompileBeforeEngineCall ==
    /\ runs <= 1
    /\ runs >= 1 => query # NoQuery
    /\ pc \in {"request", "route", "start", "detail"} => runs = 0
    /\ raised = Exc("ValueError") => runs = 0

\* C25 witness: a bulk query whose single engine call returned rows that were
\* then processed.
C25_Witness ==
    /\ pc = "processed"
    /\ route = "bulk"
    /\ query.k = "query"
    /\ runs = 1
    /\ Len(nodes) >= 1

----------------------------------------------------------------------------
(* Claims about the relationship shape and the parameters *)

\* C26: in the relationship shape the matched node of every returned row
\* satisfies every populated node filter, and every relationship collected
\* for it satisfies every populated relationship filter.
C26_RelationshipShapeConjoins ==
    (pc = "ran" /\ query.shape = "relationship") =>
        \A row \in rows :
            /\ \A fld \in NodeFields :
                  Populated(fld) => FragmentValue(NodeFragment(fld), row.n, NoRel) = "T"
            /\ \A r \in row.relationships :
                  \A i \in 1..Len(RelationshipFilters(filters)) :
                      FragmentValue(RelationshipFilters(filters)[i], row.n, r) = "T"

\* the $names the query text refers to
Referenced(q) ==
    {q.where[j].param : j \in {x \in 1..Len(q.where) : q.where[x].t = "atom"}}
    \cup ReturnClauseParams

\* C27: every parameter the emitted query refers to is bound in the parameter
\* map, and every key of the parameter map is referred to by the query.
C27_ParametersMatchQuery ==
    Built =>
        /\ Referenced(query) \subseteq DOMAIN query.parameters
        /\ DOMAIN query.parameters \subseteq Referenced(query)

\* C27 witness: a query compiled from a one-sided rating range and a product
\* filter, with four parameters.
C27_Witness ==
    /\ pc = "built"
    /\ Populated("rating_range")
    /\ Populated("product")
    /\ DOMAIN query.parameters = {"product", "rating_min", "rating_max", "limit"}

\* C28: the identifiers the node and relationship lists carry are exactly the
\* engine identifiers that were collected: a stored property named `id` never
\* replaces the engine-derived field.
C28_EngineFieldsKept ==
    Returned =>
        /\ {nodes[i]["id"] : i \in 1..Len(nodes)} = {Str(ToStr(k)) : k \in node_ids}
        /\ {edges[i]["id"] : i \in 1..Len(edges)} = {Str(ToStr(k)) : k \in edge_ids}

----------------------------------------------------------------------------
(* Claims about entity detail *)

\* the relationships of the graph that start or end at the node with this id
RelationshipsAt(id) == {r \in graph.rels : r.start = id \/ r.end = id}

\* C30: entity detail for the identifier of an existing node is answered 200
\* with that node, with every relationship of the node and no other, and with
\* a connected-node count equal to their number; for a node without
\* relationships the list is empty and the count is 0.
C30_DetailReturnsAllRelationships ==
    \A n \in graph.nodes :
        (/\ pc = "responded"
         /\ route = "detail"
         /\ fault = "none"
         /\ IsDigits(node_id)
         /\ IntOf(node_id) = n.id) =>
            /\ response.status = 200
            /\ response.data.node["name"] = n.props["name"]
            /\ {x["id"] : x \in response.data.relationships}
                  = {Str(ToStr(r.id)) : r \in RelationshipsAt(n.id)}
            /\ Cardinality(response.data.relationships) = Cardinality(RelationshipsAt(n.id))
            /\ response.data.connected_nodes_count = Cardinality(RelationshipsAt(n.id))
            /\ RelationshipsAt(n.id) = {} =>
                  /\ response.data.relationships = {}
                  /\ response.data.connected_nodes_count = 0

\* C30 witness: detail answered for node 1 of a graph without relationships.
C30_Witness ==
    /\ pc = "responded"
    /\ route = "detail"
    /\ node_id = <<"1">>
    /\ graph.rels = {}
    /\ response.status = 200
    /\ response.data.relationships = {}
    /\ response.data.connected_nodes_count = 0

====